---- MODULE Spec2Model ----
(***************************************************************************)
(* System Design Companion: the staged problem-refinement and solution-    *)
(* generation workflows over the versioned workspace store, driven by the  *)
(* Streamlit session.                                                      *)
(*                                                                         *)
(* The store is the "workspaces" directory: one directory per workspace,   *)
(* one <version>.json file per version.  A workflow invocation runs its    *)
(* steps one after another over a shared context (ctx); the Reasoner (the  *)
(* LLM behind each step) answers with any value of the step's output shape *)
(* or fails.                                                               *)
(***************************************************************************)
EXTENDS Integers, Sequences, FiniteSets, TLC

VARIABLES
    files,                    \* workspace id -> its version files, in list_versions's order
    dirs,                     \* workspace directories that exist under the root
    current_workspace_id,     \* st.session_state.current_workspace_id
    current_version_id,       \* st.session_state.current_version_id
    solution_processing,      \* st.session_state.solution_processing
    confirm_solution_removal, \* st.session_state.confirm_solution_removal
    pending_chat_input,       \* st.session_state.pending_chat_input
    ctx,                      \* the running workflow invocation: position, inputs, step outputs
    writes                    \* history: workspace id -> number of save_workspace calls so far

vars == <<files, dirs, current_workspace_id, current_version_id, solution_processing,
          confirm_solution_removal, pending_chat_input, ctx, writes>>

-----------------------------------------------------------------------------
(* Bounds *)

\* Total number of version files the workflows may write in one behaviour.
MaxSaves == 2

-----------------------------------------------------------------------------
(* Program constants *)

\* render_solution_space offers "Add Solution" only below this many candidates.
MaxSolutions == 10

-----------------------------------------------------------------------------
(* Values *)

\* Python's None, for string-valued and for record-valued slots.
NoneStr == "None"
None == [none |-> TRUE]

\* The empty dict {}: a document with no keys, falsy like None.
EmptyDict == [k \in {} |-> TRUE]

WorkspaceIds == {"ws1", "ws2"}

\* str(uuid.uuid4())[:8]: eight hex digits; the model keeps two of the 2^32.
VersionIds == {"0a1b2c3d", "4e5f6a7b"}

\* The placeholder version a session starts a workspace with; never a file name
\* the workflows mint (it is not eight hex digits).
PlaceholderVersion == "v1"

Prompts == {"p1", "p2"}

PSDefault ==
    [context |-> "", invariants |-> <<>>, goal |-> "", problem |-> "", variants |-> <<>>]

PSGoal == [PSDefault EXCEPT !.goal = "Build a URL shortener"]

\* The ProblemSpace documents the Reasoner answers with and the store holds.
ProblemSpaces == {PSDefault, PSGoal}

SolutionCandidate(id, hypothesis) ==
    [id |-> id, hypothesis |-> hypothesis, model |-> "m", reasoning |-> ""]

\* What the Reasoner returns for a generated candidate, before the id is assigned.
ReasonerCandidates == {SolutionCandidate(i, "h_new") : i \in {1, 99}}

\* The Reasoner's ComparisonResult.
ComparisonResults ==
    {[analysis |-> "a", recommendation |-> "r", simplification_feedback |-> "f"]}

SolutionSpace(candidates, comparison, feedback) ==
    [candidates |-> candidates, comparison |-> comparison,
     simplification_feedback |-> feedback]

Workspace(id, version, ps, ss) ==
    [id |-> id, version |-> version, problem_space |-> ps, solution_space |-> ss]

\* Observation lists the Check step's Reasoner call answers with.
Conflict == "Invariant X conflicts with Variant Y"

ObservationLists ==
    { <<>>, <<"Consistent">>, <<"consistent">>, <<Conflict>>,
      <<"Consistent", "Consistent">> }

\* str.lower() on the observation strings of the model.
Lower(s) ==
    IF s = "Consistent" THEN "consistent"
    ELSE IF s = Conflict THEN "invariant x conflicts with variant y"
    ELSE s

\* Solution spaces found in version files written before this session: none,
\* an empty one, one with a duplicated id, one with non-contiguous ids.
SSEmpty == SolutionSpace(<<>>, None, NoneStr)

SSDup ==
    SolutionSpace(<<SolutionCandidate(3, "h_a"), SolutionCandidate(3, "h_b"),
                    SolutionCandidate(5, "h_a")>>,
                  [analysis |-> "a", recommendation |-> "r"], "f")

SSGap ==
    SolutionSpace(<<SolutionCandidate(2, "h_a"), SolutionCandidate(7, "h_b")>>,
                  [analysis |-> "a", recommendation |-> "r"], "f")

SeedSolutionSpaces == {None, SSEmpty, SSDup, SSGap}

SeedVersion == "0a1b2c3d"

-----------------------------------------------------------------------------
(* WorkspaceManager: the store *)

\* _get_workspace_dir: returns the directory path, creating the directory.
_get_workspace_dir(d, workspace_id) == d \cup {workspace_id}

\* list_workspaces: the directories under the root.
list_workspaces == dirs

\* JSON null, and a JSON string.
JsonNull == [null |-> TRUE]
JsonStr(s) == [str |-> s]

\* Mutant of _to_json: the solution space is not written.
_to_json_problem_only(ws) ==
    [id |-> JsonStr(ws.id), version |-> JsonStr(ws.version),
     problem_space |-> ws.problem_space, solution_space |-> JsonNull]

\* _to_json: model_dump_json; every field is written, an Optional that is None
\* as null.
_to_json(ws) ==
    [id |-> JsonStr(ws.id), version |-> JsonStr(ws.version),
     problem_space |-> ws.problem_space,
     solution_space |->
         IF ws.solution_space = None THEN JsonNull
         ELSE [candidates |-> ws.solution_space.candidates,
               comparison |->
                   IF ws.solution_space.comparison = None THEN JsonNull
                   ELSE ws.solution_space.comparison,
               simplification_feedback |->
                   IF ws.solution_space.simplification_feedback = NoneStr THEN JsonNull
                   ELSE JsonStr(ws.solution_space.simplification_feedback)]]

\* _from_json: model_validate_json of the text; ws_id and ver are not used.
_from_json(ws_id, ver, content) ==
    Workspace(content.id.str, content.version.str, content.problem_space,
              IF content.solution_space = JsonNull THEN None
              ELSE SolutionSpace(
                       content.solution_space.candidates,
                       IF content.solution_space.comparison = JsonNull THEN None
                       ELSE content.solution_space.comparison,
                       IF content.solution_space.simplification_feedback = JsonNull
                       THEN NoneStr
                       ELSE content.solution_space.simplification_feedback.str))

\* A version file: <stem>.json, its st_mtime (in units of the file system's
\* timestamp granularity) and its text.
VersionFile(stem, mtime, content) == [stem |-> stem, mtime |-> mtime, content |-> content]

\* list_versions: the file stems of the workspace, sorted by modification time
\* (files of equal st_mtime stay in the directory's order).
list_versions(workspace_id) ==
    [i \in 1..Len(files[workspace_id]) |-> files[workspace_id][i].stem]

\* path.exists() of _get_version_path(workspace_id, version_id).
VersionExists(fs, workspace_id, version_id) ==
    /\ workspace_id \in DOMAIN fs
    /\ \E i \in 1..Len(fs[workspace_id]) : fs[workspace_id][i].stem = version_id

\* load_workspace on an existing file: the Workspace its JSON text parses to.
load_workspace(fs, workspace_id, version_id) ==
    LET i == CHOOSE j \in 1..Len(fs[workspace_id]) :
                 fs[workspace_id][j].stem = version_id
    IN  _from_json(workspace_id, version_id, fs[workspace_id][i].content)

\* The latest modification time of any version file, 0 before the first write
\* of the session.
LastMtime(fs) ==
    LET times == UNION {{fs[w][i].mtime : i \in 1..Len(fs[w])} : w \in DOMAIN fs}
                 \cup {0}
    IN  CHOOSE m \in times : \A t \in times : t <= m

\* The st_mtime a write may get: that of the previous write of the session when
\* both fall into one granule of the file system's timestamps, or a later one.
WriteTimes(fs) ==
    {IF LastMtime(fs) = 0 THEN 1 ELSE LastMtime(fs), LastMtime(fs) + 1}

\* Where a file of modification time t may stand among the others of its
\* directory in list_versions's order: after the older ones, anywhere among
\* those of equal st_mtime.
SortedPositions(others, t) ==
    {p \in 0..Len(others) :
        \A i \in 1..Len(others) : /\ i <= p => others[i].mtime <= t
                                  /\ i > p => others[i].mtime >= t}

InsertAt(s, p, x) == SubSeq(s, 1, p) \o <<x>> \o SubSeq(s, p + 1, Len(s))

\* The other files of the directory a write of `version` leaves in place.
OtherFiles(fs, workspace_id, version) ==
    SelectSeq(fs[workspace_id], LAMBDA f : f.stem # version)

\* Mutant of save_workspace: the path ignores the version id, so a workspace
\* keeps a single file that every save replaces.
save_workspace_single_file(fs, workspace, mtime, p) ==
    [fs EXCEPT ![workspace.id] =
        <<VersionFile(workspace.version, mtime, _to_json(workspace))>>]

\* save_workspace: open(path, "w") replaces a file of the same name; the file
\* carries the time of the write.
save_workspace(fs, workspace, mtime, p) ==
    [fs EXCEPT ![workspace.id] =
        InsertAt(OtherFiles(fs, workspace.id, workspace.version), p,
                 VersionFile(workspace.version, mtime, _to_json(workspace)))]

-----------------------------------------------------------------------------
(* Step functions of functions_companion.py *)

\* Mutant of unique_candidates: the seen-id test is dropped.
unique_candidates_all(candidates, seen_ids) == candidates

RECURSIVE unique_candidates(_, _)
\* The loop of load_workspace_state: keep a candidate when its id was not seen.
unique_candidates(candidates, seen_ids) ==
    IF candidates = <<>> THEN <<>>
    ELSE LET cand == Head(candidates)
         IN  IF cand.id \notin seen_ids
             THEN <<cand>> \o unique_candidates(Tail(candidates), seen_ids \cup {cand.id})
             ELSE unique_candidates(Tail(candidates), seen_ids)

\* Mutant of load_workspace_state: the stored candidates are returned as stored.
load_workspace_state_as_stored(fs, workspace_id, version_id) ==
    IF VersionExists(fs, workspace_id, version_id)
    THEN LET ws == load_workspace(fs, workspace_id, version_id)
         IN  [problem_space |-> ws.problem_space, solution_space |-> ws.solution_space]
    ELSE [problem_space |-> PSDefault, solution_space |-> None]

\* Mutant of load_workspace_state: a missing version file yields no document.
load_workspace_state_no_default(fs, workspace_id, version_id) ==
    IF VersionExists(fs, workspace_id, version_id)
    THEN LET ws == load_workspace(fs, workspace_id, version_id)
             ss == ws.solution_space
         IN  [problem_space |-> ws.problem_space,
              solution_space |->
                  IF ss # None /\ ss.candidates # <<>>
                  THEN [ss EXCEPT !.candidates = unique_candidates(@, {})]
                  ELSE ss]
    ELSE [problem_space |-> None, solution_space |-> None]

\* load_workspace_state: the stored documents with the candidates deduplicated,
\* or the default empty ProblemSpace when the version file does not exist.
load_workspace_state(fs, workspace_id, version_id) ==
    IF VersionExists(fs, workspace_id, version_id)
    THEN LET ws == load_workspace(fs, workspace_id, version_id)
             ss == ws.solution_space
         IN  [problem_space |-> ws.problem_space,
              solution_space |->
                  IF ss # None /\ ss.candidates # <<>>
                  THEN [ss EXCEPT !.candidates = unique_candidates(@, {})]
                  ELSE ss]
    ELSE [problem_space |-> PSDefault, solution_space |-> None]

\* Mutant of extract_has_changes: the list fields are compared as sets.
extract_has_changes_unordered(result, current_problem) ==
    \/ result.context # current_problem.context
    \/ result.goal # current_problem.goal
    \/ result.problem # current_problem.problem
    \/ {result.invariants[i] : i \in 1..Len(result.invariants)}
          # {current_problem.invariants[i] : i \in 1..Len(current_problem.invariants)}
    \/ {result.variants[i] : i \in 1..Len(result.variants)}
          # {current_problem.variants[i] : i \in 1..Len(current_problem.variants)}

\* extract_problem: has_changes = result.model_dump() != current_problem.
extract_has_changes(result, current_problem) == result # current_problem

\* Mutant of no_refinement_needed: any number of "Consistent" entries passes through.
no_refinement_needed_any_length(observations) ==
    \A i \in 1..Len(observations) : Lower(observations[i]) = "consistent"

\* Mutant of no_refinement_needed: only the empty list passes through.
no_refinement_needed_empty_only(observations) == observations = <<>>

\* refine_problem_space, line 159: the condition of the pass-through branch.
no_refinement_needed(observations) ==
    \/ observations = <<>>
    \/ (Len(observations) = 1 /\ Lower(observations[1]) = "consistent")

\* Mutant of refine_has_changes: previous_has_changes is dropped.
refine_has_changes_last_only(result, current_problem, previous_has_changes) ==
    result # current_problem

\* refine_problem_space: previous_has_changes or refine_changes.
refine_has_changes(result, current_problem, previous_has_changes) ==
    previous_has_changes \/ (result # current_problem)

SeqMax(s) == CHOOSE m \in {s[i] : i \in 1..Len(s)} : \A i \in 1..Len(s) : s[i] <= m

\* generate_candidate: existing_candidates of the solution space it is given.
existing_candidates(solution_space) ==
    IF solution_space # None THEN solution_space.candidates ELSE <<>>

\* Mutant of next_id: the number of existing candidates plus one.
next_id_count(candidates) == Len(candidates) + 1

\* generate_candidate: next_id, one more than the largest existing id.
next_id(candidates) ==
    IF candidates # <<>>
    THEN SeqMax([i \in 1..Len(candidates) |-> candidates[i].id]) + 1
    ELSE 1

\* Mutant of assign_id: the Reasoner's id is kept.
assign_id_kept(result, id) == result

\* generate_candidate, line 239: result.id = next_id.
assign_id(result, id) == [result EXCEPT !.id = id]

\* Mutant of merged_candidates: the new candidate takes the place of the last
\* old one.
merged_candidates_last_replaced(solution_space, candidate) ==
    LET old == IF solution_space # None THEN solution_space.candidates ELSE <<>>
    IN  IF candidate = None THEN old
        ELSE IF old = <<>> THEN <<candidate>>
        ELSE [old EXCEPT ![Len(old)] = candidate]

\* compare_solutions: a copy of the old candidates with the new one appended.
merged_candidates(solution_space, candidate) ==
    LET old == IF solution_space # None THEN solution_space.candidates ELSE <<>>
    IN  IF candidate # None THEN Append(old, candidate) ELSE old

\* Mutant of input_after_compare: candidates is the input's own list, so the
\* append shows in the input.
input_after_compare_aliased(solution_space, candidates) ==
    IF solution_space # None
    THEN [solution_space EXCEPT !.candidates = candidates]
    ELSE solution_space

\* compare_solutions, line 256: candidates is a deep copy, so the caller's
\* solution_space is what it was when the function returns.
input_after_compare(solution_space, candidates) == solution_space

\* compare_solutions: the full SolutionSpace built from the Reasoner's result.
new_solution_space(candidates, result) ==
    SolutionSpace(candidates,
                  [analysis |-> result.analysis, recommendation |-> result.recommendation],
                  result.simplification_feedback)

\* Mutant of save_missing_inputs: only the workspace id is looked at.
save_missing_inputs_id_only(problem_space, workspace_id) == workspace_id = ""

\* save_state, line 26: "not workspace_id or not problem_space"; the empty
\* string, None and the empty dict are the falsy values.
save_missing_inputs(problem_space, workspace_id) ==
    workspace_id = "" \/ problem_space = None \/ problem_space = EmptyDict

\* Mutant of save_nothing_to_do: the early return is never taken.
save_nothing_to_do_never(has_changes, solution_space) == FALSE

\* Mutant of save_nothing_to_do: the solution space is not looked at.
save_nothing_to_do_unchanged(has_changes, solution_space) == ~has_changes

\* save_state, line 30: "not has_changes and not solution_space".
save_nothing_to_do(has_changes, solution_space) ==
    ~has_changes /\ solution_space = None

\* save_state, lines 31-33: what the early return hands back as final_version_id.
save_unchanged_version_id(workspace_id, version_id) == workspace_id

\* Mutant of save_solution_space: remove_solutions is ignored.
save_solution_space_kept(solution_space, remove_solutions) == solution_space

\* save_state, lines 70-71: the solution space passed on to update_workspace.
save_solution_space(solution_space, remove_solutions) ==
    IF remove_solutions THEN None ELSE solution_space

-----------------------------------------------------------------------------
(* The step graphs (companion.wirl, solution_companion.wirl) *)

\* Load -> Extract -> Check -> Refine -> Save.
ProblemSteps ==
    <<"LoadWorkspace", "ExtractProblem", "CheckProblemSpace", "RefineProblemSpace",
      "SaveState">>

\* Load -> Generate candidate -> Compare -> Save.
SolutionSteps ==
    <<"LoadWorkspace", "GenerateCandidate", "CompareSolutions", "SaveState">>

StepsOf(kind) == IF kind = "problem" THEN ProblemSteps ELSE SolutionSteps

\* Mutant of NextStep: after Refine the graph goes back to Check.
NextStep_check_again(kind, step) ==
    LET steps == StepsOf(kind)
        i == CHOOSE j \in 1..Len(steps) : steps[j] = step
    IN  IF step = "RefineProblemSpace" THEN "CheckProblemSpace"
        ELSE IF i = Len(steps) THEN "done" ELSE steps[i + 1]

\* The step scheduled after `step`, "done" after the last one.
NextStep(kind, step) ==
    LET steps == StepsOf(kind)
        i == CHOOSE j \in 1..Len(steps) : steps[j] = step
    IN  IF i = Len(steps) THEN "done" ELSE steps[i + 1]

\* Mutant of SaveInputs: the problem workflow's Save reads Extract's outputs.
SaveInputs_from_extract(c) ==
    IF c.kind = "problem"
    THEN [problem_space |-> c.extract_problem_space,
          has_changes |-> c.extract_has_changes,
          solution_space |-> c.load_solution_space,
          remove_solutions |-> c.remove_solutions]
    ELSE [problem_space |-> c.load_problem_space,
          has_changes |-> FALSE,
          solution_space |-> c.compare_solution_space,
          remove_solutions |-> FALSE]

\* What the graphs hand to save_state.  Problem workflow: Refine's document and
\* flag, the solution space Load read, the caller's remove_solutions.  Solution
\* workflow: Load's document, Compare's solution space, the defaults otherwise.
SaveInputs(c) ==
    IF c.kind = "problem"
    THEN [problem_space |-> c.refine_problem_space,
          has_changes |-> c.refine_has_changes,
          solution_space |-> c.load_solution_space,
          remove_solutions |-> c.remove_solutions]
    ELSE [problem_space |-> c.load_problem_space,
          has_changes |-> FALSE,
          solution_space |-> c.compare_solution_space,
          remove_solutions |-> FALSE]

\* Mutant of on_step_error: the step that raised is scheduled again.
on_step_error_retry(kind, step) == step

\* Mutant of on_step_error: the exception is swallowed and the run goes on.
on_step_error_swallowed(kind, step) == NextStep(kind, step)

\* A step that raises ends the run: the engine schedules nothing further.
on_step_error(kind, step) == "failed"

-----------------------------------------------------------------------------
(* The invocation context *)

\* No invocation is running.
IdleCtx ==
    [kind |-> "none", caller |-> "none", pc |-> "idle",
     chat_input |-> NoneStr, workspace_id |-> NoneStr, version_id |-> NoneStr,
     remove_solutions |-> FALSE,
     load_problem_space |-> None, load_solution_space |-> None,
     extract_problem_space |-> None, extract_has_changes |-> FALSE,
     observations |-> <<>>,
     refine_problem_space |-> None, refine_has_changes |-> FALSE,
     candidate |-> None, compare_solution_space |-> None,
     final_version_id |-> NoneStr,
     error |-> NoneStr,   \* the exception a step raised, if any
     calls |-> <<>>,      \* history: the Reasoner prompts invoked, in order
     given |-> <<>>,      \* history: the documents each of them was filled with
     answers |-> <<>>,    \* history: what the Reasoner answered to each of them
     steps |-> <<>>,      \* history: the steps executed, in order
     written |-> <<>>]    \* history: the Workspace values handed to save_workspace

\* app.invoke(inputs, config): the inputs of the run, taken from the session.
Invoke(kind, caller, chat_input, remove_solutions) ==
    [IdleCtx EXCEPT !.kind = kind, !.caller = caller, !.pc = "LoadWorkspace",
                    !.chat_input = chat_input,
                    !.workspace_id = current_workspace_id,
                    !.version_id = current_version_id,
                    !.remove_solutions = remove_solutions]

TotalWrites == writes["ws1"] + writes["ws2"]

Idle == ctx.pc = "idle" /\ TotalWrites < MaxSaves

TypeOK ==
    /\ dirs \subseteq WorkspaceIds
    /\ current_workspace_id \in WorkspaceIds
    /\ current_version_id \in VersionIds \cup WorkspaceIds \cup {PlaceholderVersion}
    /\ solution_processing \in BOOLEAN
    /\ confirm_solution_removal \in {NoneStr, "pending"}
    /\ pending_chat_input \in Prompts \cup {NoneStr}
    /\ ctx.kind \in {"none", "problem", "solution"}
    /\ \A w \in WorkspaceIds : writes[w] \in 0..MaxSaves

-----------------------------------------------------------------------------
(* Initial state: the session state initialisation of streamlit_app.py *)

Init ==
    /\ \E ss \in SeedSolutionSpaces, stored \in BOOLEAN :
          files = [w \in WorkspaceIds |->
                      IF w = "ws1" /\ stored
                      THEN <<VersionFile(SeedVersion, 0,
                                         _to_json(Workspace("ws1", SeedVersion, PSGoal, ss)))>>
                      ELSE <<>>]
    /\ dirs = {"ws1"}
    /\ current_workspace_id = "ws1"
    /\ current_version_id =
          IF files["ws1"] # <<>> THEN files["ws1"][Len(files["ws1"])].stem
          ELSE PlaceholderVersion
    /\ solution_processing = FALSE
    /\ confirm_solution_removal = NoneStr
    /\ pending_chat_input = NoneStr
    /\ ctx = IdleCtx
    /\ writes = [w \in WorkspaceIds |-> 0]

-----------------------------------------------------------------------------
(* The workflow steps *)

Ran(step) == [ctx EXCEPT !.steps = Append(@, step), !.pc = NextStep(ctx.kind, step)]

Asked(c, prompt, inputs, answer) ==
    [c EXCEPT !.calls = Append(@, prompt), !.given = Append(@, inputs),
              !.answers = Append(@, answer)]

SessionUnchanged ==
    UNCHANGED <<current_workspace_id, current_version_id, solution_processing,
                confirm_solution_removal, pending_chat_input>>

\* load_workspace_state as the first step of either workflow.
LoadWorkspace ==
    /\ ctx.pc = "LoadWorkspace"
    /\ LET state == load_workspace_state(files, ctx.workspace_id, ctx.version_id)
       IN  ctx' = [Ran("LoadWorkspace") EXCEPT
                      !.load_problem_space = state.problem_space,
                      !.load_solution_space = state.solution_space]
    /\ dirs' = _get_workspace_dir(dirs, ctx.workspace_id)
    /\ UNCHANGED <<files, writes>>
    /\ SessionUnchanged

\* extract_problem: the Reasoner's ProblemSpace and whether it differs.
ExtractProblemOver(results) ==
    /\ ctx.pc = "ExtractProblem"
    /\ \E result \in results :
          ctx' = [Asked(Ran("ExtractProblem"), "ExtractProblem",
                       <<ctx.load_problem_space, ctx.chat_input>>, result) EXCEPT
                     !.extract_problem_space = result,
                     !.extract_has_changes =
                         extract_has_changes(result, ctx.load_problem_space)]
    /\ UNCHANGED <<files, dirs, writes>>
    /\ SessionUnchanged

ExtractProblem == ExtractProblemOver(ProblemSpaces)

\* check_problem_space: the Reasoner's observations.
CheckProblemSpace ==
    /\ ctx.pc = "CheckProblemSpace"
    /\ \E items \in ObservationLists :
          ctx' = [Asked(Ran("CheckProblemSpace"), "CheckConsistency",
                       <<ctx.extract_problem_space>>, items) EXCEPT
                     !.observations = items]
    /\ UNCHANGED <<files, dirs, writes>>
    /\ SessionUnchanged

\* refine_problem_space, lines 159-164: no refinement needed.
RefinePassThrough ==
    /\ ctx.pc = "RefineProblemSpace"
    /\ no_refinement_needed(ctx.observations)
    /\ ctx' = [Ran("RefineProblemSpace") EXCEPT
                  !.refine_problem_space = ctx.extract_problem_space,
                  !.refine_has_changes = ctx.extract_has_changes]
    /\ UNCHANGED <<files, dirs, writes>>
    /\ SessionUnchanged

\* refine_problem_space, lines 166-189: the Reasoner revises the document.
RefineProblemSpace ==
    /\ ctx.pc = "RefineProblemSpace"
    /\ ~no_refinement_needed(ctx.observations)
    /\ \E result \in ProblemSpaces :
          ctx' = [Asked(Ran("RefineProblemSpace"), "RefineProblem",
                       <<ctx.extract_problem_space, ctx.chat_input, ctx.observations>>,
                       result) EXCEPT
                     !.refine_problem_space = result,
                     !.refine_has_changes =
                         refine_has_changes(result, ctx.extract_problem_space,
                                            ctx.extract_has_changes)]
    /\ UNCHANGED <<files, dirs, writes>>
    /\ SessionUnchanged

\* generate_candidate: the Reasoner's candidate, its id replaced by next_id.
GenerateCandidate ==
    /\ ctx.pc = "GenerateCandidate"
    /\ \E result \in ReasonerCandidates :
          ctx' = [Asked(Ran("GenerateCandidate"), "GenerateCandidate",
                       <<ctx.load_problem_space,
                         existing_candidates(ctx.load_solution_space)>>, result) EXCEPT
                     !.candidate =
                         assign_id(result,
                                   next_id(existing_candidates(ctx.load_solution_space)))]
    /\ UNCHANGED <<files, dirs, writes>>
    /\ SessionUnchanged

\* compare_solutions: nothing to compare, or the full new SolutionSpace.
CompareSolutions ==
    /\ ctx.pc = "CompareSolutions"
    /\ LET candidates == merged_candidates(ctx.load_solution_space, ctx.candidate)
           input == input_after_compare(ctx.load_solution_space, candidates)
       IN  IF candidates = <<>>
           THEN ctx' = [Ran("CompareSolutions") EXCEPT !.load_solution_space = input]
           ELSE \E result \in ComparisonResults :
                   ctx' = [Asked(Ran("CompareSolutions"), "CompareSolutions",
                             <<ctx.load_problem_space, candidates>>, result) EXCEPT
                              !.load_solution_space = input,
                              !.compare_solution_space =
                                  new_solution_space(candidates, result)]
    /\ UNCHANGED <<files, dirs, writes>>
    /\ SessionUnchanged

\* A Reasoner call raises (backend error, timeout): the step raises and the run ends.
ReasonerFails ==
    /\ \/ ctx.pc \in {"ExtractProblem", "CheckProblemSpace", "GenerateCandidate"}
       \/ ctx.pc = "RefineProblemSpace" /\ ~no_refinement_needed(ctx.observations)
       \/ /\ ctx.pc = "CompareSolutions"
          /\ merged_candidates(ctx.load_solution_space, ctx.candidate) # <<>>
    /\ ctx' = [ctx EXCEPT !.steps = Append(@, ctx.pc),
                          !.error = "ReasonerFailure",
                          !.pc = on_step_error(ctx.kind, ctx.pc)]
    /\ UNCHANGED <<files, dirs, writes>>
    /\ SessionUnchanged

\* save_state with update_workspace: nothing to save, or one new version file
\* named by the first eight digits of a fresh uuid4.
SaveState ==
    /\ ctx.pc = "SaveState"
    /\ LET in == SaveInputs(ctx)
           ws_id == ctx.workspace_id
       IN  IF save_missing_inputs(in.problem_space, ws_id)
           THEN /\ ctx' = Ran("SaveState")
                /\ UNCHANGED <<files, dirs, writes>>
           ELSE IF save_nothing_to_do(in.has_changes, in.solution_space)
           THEN /\ ctx' = [Ran("SaveState") EXCEPT
                              !.final_version_id =
                                  save_unchanged_version_id(ws_id, ctx.version_id)]
                /\ UNCHANGED <<files, dirs, writes>>
           ELSE \E new_version \in VersionIds, mtime \in WriteTimes(files) :
                   LET ws == Workspace(ws_id, new_version, in.problem_space,
                                 save_solution_space(in.solution_space,
                                                     in.remove_solutions))
                   IN  /\ \E p \in SortedPositions(
                                     OtherFiles(files, ws_id, new_version), mtime) :
                              files' = save_workspace(files, ws, mtime, p)
                       /\ dirs' = _get_workspace_dir(dirs, ws_id)
                       /\ writes' = [writes EXCEPT ![ws_id] = @ + 1]
                       /\ ctx' = [Ran("SaveState") EXCEPT
                                     !.final_version_id = new_version,
                                     !.written = Append(@, ws)]
    /\ SessionUnchanged

-----------------------------------------------------------------------------
(* The Streamlit session: one action per user event and its script run *)

\* Line 225: the state every script run fetches for rendering.
current_ws_data == load_workspace_state(files, current_workspace_id, current_version_id)

\* Mutant of has_solutions: any stored solution space counts, even an empty one.
has_solutions_any_space(ss) == ss # None

\* Line 301: has_solutions.
has_solutions(ss) == ss # None /\ Len(ss.candidates) > 0

\* Line 166: current_candidates of render_solution_space.
current_candidates(ss) == IF ss # None THEN ss.candidates ELSE <<>>

\* Mutant of add_solution_offered: the button is still shown at the limit.
add_solution_offered_at_limit(candidates) == Len(candidates) <= MaxSolutions

\* Lines 178-187: "Add Solution" is rendered unless len(current_candidates) >= 10.
add_solution_offered(candidates) == ~(Len(candidates) >= MaxSolutions)

\* Mutant of processing_after_invoke: the except branch leaves the flag set.
processing_after_invoke_kept_on_error(c) == c.pc = "failed"

\* Lines 332 and 336: solution_processing after app_solution.invoke() returned
\* (any result) or raised.
processing_after_invoke(c) == FALSE

\* Lines 115-117: the version id the session holds after invoke() returned.
adopted_version_id(c, current) ==
    IF c.pc = "done" /\ c.final_version_id # NoneStr
    THEN c.final_version_id
    ELSE current

\* Lines 295-310: a chat input while no confirmation is pending.
ChatInput ==
    /\ Idle
    /\ confirm_solution_removal # "pending"
    /\ \E prompt \in Prompts :
          IF has_solutions(current_ws_data.solution_space)
          THEN /\ confirm_solution_removal' = "pending"
               /\ pending_chat_input' = prompt
               /\ UNCHANGED ctx
          ELSE /\ ctx' = Invoke("problem", "chat", prompt, TRUE)
               /\ UNCHANGED <<confirm_solution_removal, pending_chat_input>>
    /\ UNCHANGED <<files, dirs, writes, current_workspace_id, current_version_id,
                   solution_processing>>

\* Lines 275-276: "Remove Solutions & Update" runs the pending input.
RemoveSolutionsAndUpdate ==
    /\ Idle
    /\ confirm_solution_removal = "pending"
    /\ ctx' = Invoke("problem", "remove", pending_chat_input, TRUE)
    /\ UNCHANGED <<files, dirs, writes, current_workspace_id, current_version_id,
                   solution_processing, confirm_solution_removal, pending_chat_input>>

\* Lines 282-283: "Keep Solutions & Update" runs the pending input.
KeepSolutionsAndUpdate ==
    /\ Idle
    /\ confirm_solution_removal = "pending"
    /\ ctx' = Invoke("problem", "keep", pending_chat_input, FALSE)
    /\ UNCHANGED <<files, dirs, writes, current_workspace_id, current_version_id,
                   solution_processing, confirm_solution_removal, pending_chat_input>>

\* Lines 289-292: "Cancel".
CancelConfirmation ==
    /\ Idle
    /\ confirm_solution_removal = "pending"
    /\ confirm_solution_removal' = NoneStr
    /\ pending_chat_input' = NoneStr
    /\ UNCHANGED <<files, dirs, writes, current_workspace_id, current_version_id,
                   solution_processing, ctx>>

\* run_problem_workflow after invoke() returned or raised, and the rest of the
\* button handler that called it.
ProblemWorkflowReturns ==
    /\ ctx.kind = "problem"
    /\ ctx.pc \in {"done", "failed"}
    /\ current_version_id' = adopted_version_id(ctx, current_version_id)
    /\ IF ctx.caller \in {"remove", "keep"}
       THEN /\ confirm_solution_removal' = NoneStr
            /\ pending_chat_input' = NoneStr
       ELSE UNCHANGED <<confirm_solution_removal, pending_chat_input>>
    /\ ctx' = IdleCtx
    /\ UNCHANGED <<files, dirs, writes, current_workspace_id, solution_processing>>

\* "Add Solution": start_solution_generation, then the script run reaches the
\* solution workflow invocation of lines 320-330.
AddSolutionClick ==
    /\ Idle
    /\ ~solution_processing
    /\ add_solution_offered(current_candidates(current_ws_data.solution_space))
    /\ solution_processing' = TRUE
    /\ ctx' = Invoke("solution", "add_solution", "Add Solution", FALSE)
    /\ UNCHANGED <<files, dirs, writes, current_workspace_id, current_version_id,
                   confirm_solution_removal, pending_chat_input>>

\* Lines 331-337: after app_solution.invoke() returned or raised.
SolutionWorkflowReturns ==
    /\ ctx.kind = "solution"
    /\ ctx.pc \in {"done", "failed"}
    /\ solution_processing' = processing_after_invoke(ctx)
    /\ current_version_id' = adopted_version_id(ctx, current_version_id)
    /\ ctx' = IdleCtx
    /\ UNCHANGED <<files, dirs, writes, current_workspace_id,
                   confirm_solution_removal, pending_chat_input>>

\* Lines 235-240: another workspace is selected; its latest version is adopted.
SelectWorkspace ==
    /\ Idle
    /\ \E selected_ws \in list_workspaces :
          /\ selected_ws # current_workspace_id
          /\ current_workspace_id' = selected_ws
          /\ LET versions == list_versions(selected_ws)
             IN  current_version_id' =
                     IF versions # <<>> THEN versions[Len(versions)]
                     ELSE PlaceholderVersion
    /\ UNCHANGED <<files, dirs, writes, solution_processing, confirm_solution_removal,
                   pending_chat_input, ctx>>

\* Lines 244-248: "New" starts a workspace under a full uuid4 (122 random bits,
\* taken as new, unlike the 32 bits of a version id); the rerun's
\* load_workspace_state creates its directory.
NewWorkspace ==
    /\ Idle
    /\ \E new_id \in WorkspaceIds \ dirs :
          /\ current_workspace_id' = new_id
          /\ dirs' = _get_workspace_dir(dirs, new_id)
    /\ current_version_id' = PlaceholderVersion
    /\ UNCHANGED <<files, writes, solution_processing, confirm_solution_removal,
                   pending_chat_input, ctx>>

Next ==
    \/ ChatInput
    \/ RemoveSolutionsAndUpdate
    \/ KeepSolutionsAndUpdate
    \/ CancelConfirmation
    \/ AddSolutionClick
    \/ SelectWorkspace
    \/ NewWorkspace
    \/ LoadWorkspace
    \/ ExtractProblem
    \/ CheckProblemSpace
    \/ RefinePassThrough
    \/ RefineProblemSpace
    \/ GenerateCandidate
    \/ CompareSolutions
    \/ ReasonerFails
    \/ SaveState
    \/ ProblemWorkflowReturns
    \/ SolutionWorkflowReturns

Spec == Init /\ [][Next]_vars

-----------------------------------------------------------------------------
(* Properties *)

Running == ctx.pc # "idle"

ProblemRunDone == ctx.kind = "problem" /\ ctx.pc = "done"

SolutionRunDone == ctx.kind = "solution" /\ ctx.pc = "done"

\* C1: a problem-workflow invocation with remove_solutions = false whose final
\* ProblemSpace equals the loaded one (has_changes false) returns exactly the
\* version id it was given and writes nothing.
C1_NoOpSaveReturnsInputVersion ==
    (ProblemRunDone /\ ~ctx.remove_solutions /\ ~ctx.refine_has_changes)
        => (ctx.final_version_id = ctx.version_id /\ ctx.written = <<>>)

\* C2: every version an invocation writes differs, as a (problem_space,
\* solution_space) pair, from the pair the invocation loaded.
C2_WrittenDiffersFromLoaded ==
    \A i \in 1..Len(ctx.written) :
        <<ctx.written[i].problem_space, ctx.written[i].solution_space>>
            # <<ctx.load_problem_space, ctx.load_solution_space>>

\* C3: version history is append-only: a step never removes or changes a
\* version file that exists, and a save mints a version id new to the workspace.
C3_AppendOnlyStep ==
    \A w \in WorkspaceIds : \A i \in 1..Len(files[w]) :
        /\ VersionExists(files', w, files[w][i].stem)
        /\ load_workspace(files', w, files[w][i].stem)
               = load_workspace(files, w, files[w][i].stem)

C3_AppendOnly == [][C3_AppendOnlyStep]_vars

\* C4 as stated: after N writing invocations a workspace lists exactly N+1
\* versions (counting the initial state), pairwise distinct and each loadable.
VersionsDistinctAndLoadable(w) ==
    LET versions == list_versions(w)
    IN  /\ \A i, j \in 1..Len(versions) : versions[i] = versions[j] => i = j
        /\ \A i \in 1..Len(versions) :
              /\ VersionExists(files, w, versions[i])
              /\ load_workspace(files, w, versions[i]).version = versions[i]
              /\ load_workspace(files, w, versions[i]).id = w

C4_CountIsWritesPlusOne ==
    \A w \in WorkspaceIds :
        writes[w] >= 1 =>
            /\ Len(list_versions(w)) = writes[w] + 1
            /\ VersionsDistinctAndLoadable(w)

\* C4 amended: the listed versions are pairwise distinct and each loads; a step
\* that does not write leaves the list alone, and a write lengthens it by one
\* exactly when the minted id names no existing file of the workspace (else the
\* file is replaced and the length stays).  The placeholder initial version is
\* not listed: a fresh workspace lists N versions after N writes of distinct ids.
\* The workspace the session creates with "New": it has no version at the start.
CreatedInSession == "ws2"

C4_WriteStep ==
    \A w \in WorkspaceIds :
        IF writes'[w] = writes[w]
        THEN files'[w] = files[w]
        ELSE /\ writes'[w] = writes[w] + 1
             /\ Len(files'[w]) =
                   IF VersionExists(files, w, ctx'.final_version_id)
                   THEN Len(files[w])
                   ELSE Len(files[w]) + 1
             /\ VersionExists(files', w, ctx'.final_version_id)

C4_ListedVersions ==
    /\ [](/\ \A w \in WorkspaceIds : VersionsDistinctAndLoadable(w)
          /\ Len(list_versions(CreatedInSession)) <= writes[CreatedInSession])
    /\ [][C4_WriteStep]_vars

C4_Witness ==
    /\ writes[CreatedInSession] = 2
    /\ Len(list_versions(CreatedInSession)) = 2

\* C5: an invocation saves at most once; only the Save step touches the store;
\* an invocation in which a step raised has saved nothing, and its return
\* leaves the session's current version id as it was.
C5_FailedRunState ==
    /\ Len(ctx.written) <= 1
    /\ Running => current_version_id = ctx.version_id
    /\ ctx.error # NoneStr => (ctx.written = <<>> /\ ctx.final_version_id = NoneStr)

C5_FailedRunStep ==
    /\ ctx.pc # "SaveState" => files' = files
    /\ ctx.error # NoneStr => current_version_id' = current_version_id

C5_FailureAtomicity == []C5_FailedRunState /\ [][C5_FailedRunStep]_vars

C5_Witness ==
    /\ ctx.kind = "solution"
    /\ ctx.error # NoneStr
    /\ ctx.steps = <<"LoadWorkspace", "GenerateCandidate", "CompareSolutions">>

\* C6: a problem-workflow invocation that changed the ProblemSpace writes one
\* version holding Refine's document; its SolutionSpace is absent when
\* remove_solutions is true and is the loaded SolutionSpace when it is false.
C6_RemoveSolutionsInteraction ==
    ProblemRunDone =>
        /\ ctx.refine_problem_space # ctx.load_problem_space => Len(ctx.written) = 1
        /\ \A i \in 1..Len(ctx.written) :
              /\ ctx.written[i].problem_space = ctx.refine_problem_space
              /\ ctx.remove_solutions => ctx.written[i].solution_space = None
              /\ ~ctx.remove_solutions =>
                    ctx.written[i].solution_space = ctx.load_solution_space
              /\ load_workspace(files, ctx.workspace_id, ctx.final_version_id)
                    = ctx.written[i]

C6_Witness ==
    /\ ProblemRunDone
    /\ ~ctx.remove_solutions
    /\ has_solutions(ctx.load_solution_space)
    /\ ctx.refine_problem_space # ctx.load_problem_space
    /\ Len(ctx.written) = 1
    /\ ctx.written[1].solution_space = ctx.load_solution_space

Range(s) == {s[i] : i \in 1..Len(s)}

SetMax(S) == CHOOSE m \in S : \A x \in S : x <= m

CandidateIds(solution_space) ==
    IF solution_space = None THEN {}
    ELSE {c.id : c \in Range(solution_space.candidates)}

StoredCandidateIds(w) ==
    UNION {CandidateIds(load_workspace(files, w, files[w][i].stem).solution_space) :
              i \in 1..Len(files[w])}

JustGenerated == ctx.pc = "CompareSolutions" /\ ctx.candidate # None

\* C7 as stated: a newly generated candidate's id is greater than every
\* candidate id assigned before in the workspace (the stored versions hold
\* ids assigned before).
C7_IdsNeverReused ==
    JustGenerated => \A id \in StoredCandidateIds(ctx.workspace_id) : id < ctx.candidate.id

\* C7 amended: a newly generated candidate's id is greater than every candidate
\* id of the SolutionSpace the invocation loaded, and in the version the
\* solution workflow writes the new candidate is last and has the largest id.
C7_IdAboveLoadedIds ==
    /\ ctx.candidate # None =>
          \A id \in CandidateIds(ctx.load_solution_space) : id < ctx.candidate.id
    /\ SolutionRunDone =>
          \A i \in 1..Len(ctx.written) :
              LET cands == ctx.written[i].solution_space.candidates
              IN  /\ cands[Len(cands)] = ctx.candidate
                  /\ \A k \in 1..(Len(cands) - 1) : cands[k].id < ctx.candidate.id

C7_Witness ==
    /\ JustGenerated
    /\ ctx.candidate.id = 1
    /\ \E id \in StoredCandidateIds(ctx.workspace_id) : id >= 1

\* C8: the generated candidate's id is max(ids of the given SolutionSpace,
\* default 0) + 1 whatever id the Reasoner returned: 1 without candidates,
\* 8 for ids {2, 7}, and never an id the SolutionSpace already holds.
C8_CandidateIdAllocation ==
    ctx.candidate # None =>
        LET ids == CandidateIds(ctx.load_solution_space)
        IN  /\ ctx.candidate.id = (IF ids = {} THEN 0 ELSE SetMax(ids)) + 1
            /\ ctx.candidate.id \notin ids
            /\ ids = {} => ctx.candidate.id = 1
            /\ ids = {2, 7} => ctx.candidate.id = 8

C8_Witness ==
    /\ JustGenerated
    /\ CandidateIds(ctx.load_solution_space) = {2, 7}
    /\ ctx.candidate.id = 8

\* The candidates of s whose id no earlier candidate of s has.
FirstOccurrenceIndices(s) ==
    {i \in 1..Len(s) : \A j \in 1..(i - 1) : s[j].id # s[i].id}

IsFirstOccurrenceFilter(out, s) ==
    LET I == FirstOccurrenceIndices(s)
    IN  /\ Len(out) = Cardinality(I)
        /\ \E f \in [1..Len(out) -> I] :
              /\ \A a, b \in 1..Len(out) : a < b => f[a] < f[b]
              /\ \A a \in 1..Len(out) : out[a] = s[f[a]]

Ids(s) == [i \in 1..Len(s) |-> s[i].id]

LoadedAndNotYetSaved == ctx.steps # <<>> /\ ctx.written = <<>>

\* C9: the Load step returns the stored candidates filtered to the first
\* occurrence of each id, in stored order ([3,3,5] loads as [3,5]), returns
\* candidates with unique ids unchanged, and does not modify the version file.
C9_LoadState ==
    (LoadedAndNotYetSaved /\ VersionExists(files, ctx.workspace_id, ctx.version_id)) =>
        LET stored == load_workspace(files, ctx.workspace_id, ctx.version_id)
            loaded == ctx.load_solution_space
        IN  /\ ctx.load_problem_space = stored.problem_space
            /\ stored.solution_space = None => loaded = None
            /\ stored.solution_space # None =>
                  /\ loaded # None
                  /\ IsFirstOccurrenceFilter(loaded.candidates,
                                             stored.solution_space.candidates)
                  /\ loaded.comparison = stored.solution_space.comparison
                  /\ Ids(stored.solution_space.candidates) = <<3, 3, 5>>
                        => Ids(loaded.candidates) = <<3, 5>>
                  /\ Cardinality(CandidateIds(stored.solution_space))
                        = Len(stored.solution_space.candidates)
                        => loaded = stored.solution_space

C9_LoadStep == ctx.pc = "LoadWorkspace" => files' = files

C9_DedupOnLoad == []C9_LoadState /\ [][C9_LoadStep]_vars

C9_Witness ==
    /\ LoadedAndNotYetSaved
    /\ VersionExists(files, ctx.workspace_id, ctx.version_id)
    /\ load_workspace(files, ctx.workspace_id, ctx.version_id).solution_space = SSDup
    /\ Ids(ctx.load_solution_space.candidates) = <<3, 5>>
    /\ ctx.load_solution_space.candidates[1].hypothesis = "h_a"

RefineRan ==
    /\ ctx.kind = "problem"
    /\ "RefineProblemSpace" \in Range(ctx.steps)
    /\ ctx.error = NoneStr

\* C10: on Check output [] or ["Consistent"] Refine does not ask the Reasoner
\* and hands on Extract's document and has_changes unchanged; on an observation
\* such as ["Invariant X conflicts with Variant Y"] it asks the Reasoner, and
\* the document it returns is the one Save receives and writes.
C10_RefinementGating ==
    RefineRan =>
        /\ ctx.observations \in {<<>>, <<"Consistent">>} =>
              /\ "RefineProblem" \notin Range(ctx.calls)
              /\ ctx.refine_problem_space = ctx.extract_problem_space
              /\ ctx.refine_has_changes = ctx.extract_has_changes
        /\ ctx.observations = <<Conflict>> =>
              /\ ctx.calls = <<"ExtractProblem", "CheckConsistency", "RefineProblem">>
              /\ SaveInputs(ctx).problem_space = ctx.refine_problem_space
              /\ \A i \in 1..Len(ctx.written) :
                    ctx.written[i].problem_space = ctx.refine_problem_space

C10_Witness ==
    /\ RefineRan
    /\ ctx.observations = <<"Consistent">>
    /\ ctx.extract_has_changes
    /\ ctx.refine_has_changes
    /\ ctx.refine_problem_space = ctx.extract_problem_space
    /\ ctx.calls = <<"ExtractProblem", "CheckConsistency">>

-----------------------------------------------------------------------------
(* Extract over documents that differ in each field and in element order *)

Strings2 == {<<>>, <<"s1", "s2">>, <<"s2", "s1">>}

\* ProblemSpace documents: each scalar field empty or set, each list field
\* empty or holding two entries in either order.
ExtractDocuments ==
    [context : {"", "c"}, invariants : Strings2, goal : {"", "g"},
     problem : {"", "p"}, variants : Strings2]

\* A problem workflow run on a stored version holding any such document.
InitExtract ==
    /\ \E current \in ExtractDocuments :
          files = [w \in WorkspaceIds |->
                      IF w = "ws1"
                      THEN <<VersionFile(SeedVersion, 0,
                                 _to_json(Workspace("ws1", SeedVersion, current, None)))>>
                      ELSE <<>>]
    /\ dirs = {"ws1"}
    /\ current_workspace_id = "ws1"
    /\ current_version_id = SeedVersion
    /\ solution_processing = FALSE
    /\ confirm_solution_removal = NoneStr
    /\ pending_chat_input = NoneStr
    /\ \E prompt \in Prompts : ctx = Invoke("problem", "chat", prompt, TRUE)
    /\ writes = [w \in WorkspaceIds |-> 0]

ExtractOverDocuments == ExtractProblemOver(ExtractDocuments)

NextExtract == LoadWorkspace \/ ExtractOverDocuments

SpecExtract == InitExtract /\ [][NextExtract]_vars

\* Structural equality of two ProblemSpace documents, field by field and, for
\* the list fields, position by position.
SameProblemSpace(a, b) ==
    /\ a.context = b.context
    /\ a.goal = b.goal
    /\ a.problem = b.problem
    /\ Len(a.invariants) = Len(b.invariants)
    /\ \A i \in 1..Len(a.invariants) : a.invariants[i] = b.invariants[i]
    /\ Len(a.variants) = Len(b.variants)
    /\ \A i \in 1..Len(a.variants) : a.variants[i] = b.variants[i]

ExtractRan ==
    /\ ctx.kind = "problem"
    /\ "ExtractProblem" \in Range(ctx.steps)
    /\ ctx.error = NoneStr

\* C11: after Extract, has_changes is true exactly when the Reasoner's
\* ProblemSpace differs from the loaded one in some field (for invariants and
\* variants: in length or at some position), false exactly when all five fields
\* are equal; the document Extract hands on is the Reasoner's answer.
C11_ExtractChangeDetection ==
    ExtractRan =>
        /\ ctx.extract_has_changes = ~SameProblemSpace(ctx.answers[1], ctx.load_problem_space)
        /\ ctx.extract_problem_space = ctx.answers[1]

\* The Reasoner returned the loaded document with its invariants reordered.
C11_Witness ==
    /\ ExtractRan
    /\ ctx.load_problem_space.invariants = <<"s1", "s2">>
    /\ ctx.answers[1] = [ctx.load_problem_space EXCEPT !.invariants = <<"s2", "s1">>]
    /\ ctx.extract_has_changes

-----------------------------------------------------------------------------
(* The solution workflow's save *)

\* C12: a solution-workflow run in which Compare produced a SolutionSpace calls
\* save_workspace exactly once although has_changes is false, and returns the
\* version id it wrote under; the stored version holds the loaded ProblemSpace
\* and Compare's SolutionSpace.  Run on a version without a SolutionSpace, the
\* stored SolutionSpace has exactly one candidate, with id 1, and a comparison.
C12_SolutionSave ==
    (SolutionRunDone /\ ctx.compare_solution_space # None) =>
        /\ ~SaveInputs(ctx).has_changes
        /\ Len(ctx.written) = 1
        /\ ctx.final_version_id = ctx.written[1].version
        /\ ctx.final_version_id \in VersionIds
        /\ ctx.written[1].id = ctx.workspace_id
        /\ ctx.written[1].problem_space = ctx.load_problem_space
        /\ ctx.written[1].solution_space = ctx.compare_solution_space
        /\ VersionExists(files, ctx.workspace_id, ctx.final_version_id)
        /\ load_workspace(files, ctx.workspace_id, ctx.final_version_id) = ctx.written[1]
        /\ ctx.load_solution_space = None =>
              LET ss == load_workspace(files, ctx.workspace_id,
                                       ctx.final_version_id).solution_space
              IN  /\ Len(ss.candidates) = 1
                  /\ ss.candidates[1].id = 1
                  /\ ss.comparison # None

\* A first candidate was added to a stored version that had a ProblemSpace only.
C12_Witness ==
    /\ SolutionRunDone
    /\ ctx.load_problem_space = PSGoal
    /\ ctx.load_solution_space = None
    /\ ctx.compare_solution_space # None
    /\ Len(ctx.written) = 1
    /\ ctx.written[1].solution_space.candidates[1].id = 1
    /\ ctx.final_version_id # ctx.version_id

-----------------------------------------------------------------------------
(* The order of list_versions *)

\* C13: list_versions returns the versions in the order they were saved, so
\* once a run has written a version, that version is the last element of its
\* workspace's list, also when the previous save was an instant earlier.
C13_LatestSaveListedLast ==
    ctx.written # <<>> =>
        LET versions == list_versions(ctx.workspace_id)
        IN  versions[Len(versions)] = ctx.written[Len(ctx.written)].version

-----------------------------------------------------------------------------
(* Which operations create a workspace *)

C14_CreatedOnlyBySaveStep ==
    \A w \in WorkspaceIds :
        (w \in list_workspaces' /\ w \notin list_workspaces) => writes'[w] = writes[w] + 1

\* C14: a workspace id enters list_workspaces only by a save under that id;
\* loading an absent version and listing the versions of an unknown workspace
\* leave list_workspaces as it was.
C14_CreatedOnlyBySave == [][C14_CreatedOnlyBySaveStep]_vars

-----------------------------------------------------------------------------
(* Load never fails for a missing version *)

\* C15: the Load step ends without error whether or not (workspace_id,
\* version_id) is stored.  Not stored: it returns the ProblemSpace with all five
\* fields empty and no SolutionSpace.  Stored: it returns the stored
\* ProblemSpace, and the stored SolutionSpace with its candidates reduced to
\* the first occurrence of each id.
C15_LoadOrDefault ==
    LoadedAndNotYetSaved =>
        /\ ctx.steps[1] = "LoadWorkspace"
        /\ ctx.steps = <<"LoadWorkspace">> =>
              (ctx.error = NoneStr /\ ctx.pc \notin {"failed", "LoadWorkspace"})
        /\ IF VersionExists(files, ctx.workspace_id, ctx.version_id)
           THEN LET stored == load_workspace(files, ctx.workspace_id, ctx.version_id)
                IN  /\ ctx.load_problem_space = stored.problem_space
                    /\ IF stored.solution_space = None
                       THEN ctx.load_solution_space = None
                       ELSE /\ ctx.load_solution_space.comparison
                                  = stored.solution_space.comparison
                            /\ ctx.load_solution_space.simplification_feedback
                                  = stored.solution_space.simplification_feedback
                            /\ IsFirstOccurrenceFilter(
                                   ctx.load_solution_space.candidates,
                                   stored.solution_space.candidates)
           ELSE /\ ctx.load_problem_space =
                      [context |-> "", invariants |-> <<>>, goal |-> "",
                       problem |-> "", variants |-> <<>>]
                /\ ctx.load_solution_space = None

\* A run was started on the placeholder version of a workspace without files.
C15_Witness ==
    /\ ctx.steps = <<"LoadWorkspace">>
    /\ ctx.version_id = PlaceholderVersion
    /\ ~VersionExists(files, ctx.workspace_id, ctx.version_id)
    /\ ctx.load_problem_space = PSDefault
    /\ ctx.load_solution_space = None
    /\ ctx.error = NoneStr

-----------------------------------------------------------------------------
(* Read-your-writes *)

Keys == WorkspaceIds \X (VersionIds \cup {PlaceholderVersion})

\* The step handed a Workspace of key k to save_workspace.
SavedKey(k) ==
    /\ Len(ctx'.written) = Len(ctx.written) + 1
    /\ ctx'.written[Len(ctx'.written)].id = k[1]
    /\ ctx'.written[Len(ctx'.written)].version = k[2]

C16_ReadYourWritesStep ==
    \A k \in Keys :
        IF SavedKey(k)
        THEN /\ VersionExists(files', k[1], k[2])
             /\ load_workspace(files', k[1], k[2]) = ctx'.written[Len(ctx'.written)]
        ELSE VersionExists(files, k[1], k[2]) =>
                /\ VersionExists(files', k[1], k[2])
                /\ load_workspace(files', k[1], k[2]) = load_workspace(files, k[1], k[2])

\* C16: right after save(w), load(w.id, w.version) returns a Workspace equal to
\* w in every field; a step that does not save under a key leaves what load
\* returns for that key unchanged, so load always returns the latest save to
\* the key.
C16_ReadYourWrites == [][C16_ReadYourWritesStep]_vars

\* A key was saved twice in a row and load returns the second Workspace, which
\* carries a SolutionSpace.
C16_Witness ==
    /\ ctx.written # <<>>
    /\ writes[ctx.workspace_id] = 2
    /\ Len(files[ctx.workspace_id]) = 1
    /\ ctx.written[1].solution_space # None
    /\ load_workspace(files, ctx.workspace_id, ctx.final_version_id) = ctx.written[1]

-----------------------------------------------------------------------------
(* The candidate limit *)

\* A SolutionSpace one short of the limit, as nine "Add Solution" runs leave it.
SSBelowLimit ==
    SolutionSpace([i \in 1..(MaxSolutions - 1) |-> SolutionCandidate(i, "h_a")],
                  [analysis |-> "a", recommendation |-> "r"], "f")

\* The session starts on a stored version holding that SolutionSpace.
InitLimit ==
    /\ files = [w \in WorkspaceIds |->
                   IF w = "ws1"
                   THEN <<VersionFile(SeedVersion, 0,
                              _to_json(Workspace("ws1", SeedVersion, PSGoal, SSBelowLimit)))>>
                   ELSE <<>>]
    /\ dirs = {"ws1"}
    /\ current_workspace_id = "ws1"
    /\ current_version_id = SeedVersion
    /\ solution_processing = FALSE
    /\ confirm_solution_removal = NoneStr
    /\ pending_chat_input = NoneStr
    /\ ctx = IdleCtx
    /\ writes = [w \in WorkspaceIds |-> 0]

SpecLimit == InitLimit /\ [][Next]_vars

\* The SolutionSpaces of the version files of the store.
StoredSolutionSpaces ==
    UNION {{load_workspace(files, w, files[w][i].stem).solution_space :
               i \in 1..Len(files[w])} : w \in WorkspaceIds} \ {None}

\* C17: the solution workflow runs only on a version whose loaded (and
\* deduplicated) SolutionSpace has fewer than 10 candidates, and every stored
\* SolutionSpace has at most 10 candidates.
C17_CandidateLimit ==
    /\ (ctx.kind = "solution" /\ "LoadWorkspace" \in Range(ctx.steps)) =>
          Len(existing_candidates(ctx.load_solution_space)) < MaxSolutions
    /\ \A ss \in StoredSolutionSpaces : Len(ss.candidates) <= MaxSolutions

\* The session shows a stored version with 10 candidates and no "Add Solution".
C17_Witness ==
    /\ ctx.pc = "idle"
    /\ VersionExists(files, current_workspace_id, current_version_id)
    /\ Len(current_candidates(current_ws_data.solution_space)) = MaxSolutions
    /\ ~ENABLED AddSolutionClick
    /\ TotalWrites < MaxSaves

-----------------------------------------------------------------------------
(* When Refine asks the Reasoner *)

RefineAsked == "RefineProblem" \in Range(ctx.calls)

\* C18 as stated: Refine asks the Reasoner only when some observation is other
\* than the "Consistent" sentinel; on a list of any length holding nothing but
\* "Consistent" entries, and on the empty list, it passes through.
C18_OnlySentinelsPassThrough ==
    RefineRan =>
        (RefineAsked <=>
            \E i \in 1..Len(ctx.observations) : Lower(ctx.observations[i]) # "consistent")

\* C18 amended: Refine passes through exactly when the observation list is
\* empty or is the single observation "Consistent" in any letter case; on every
\* other list, a list of two "Consistent" entries included, it asks the
\* Reasoner.
C18_RefineEntryCondition ==
    RefineRan =>
        LET single_sentinel ==
                /\ Len(ctx.observations) = 1
                /\ ctx.observations[1] \in {"Consistent", "consistent"}
        IN  /\ RefineAsked <=> ~(ctx.observations = <<>> \/ single_sentinel)
            /\ ~RefineAsked =>
                  /\ ctx.refine_problem_space = ctx.extract_problem_space
                  /\ ctx.refine_has_changes = ctx.extract_has_changes
            /\ RefineAsked => ctx.refine_problem_space = ctx.answers[Len(ctx.answers)]

\* Check answered ["Consistent", "Consistent"] and Refine asked the Reasoner.
C18_Witness ==
    /\ RefineRan
    /\ ctx.observations = <<"Consistent", "Consistent">>
    /\ RefineAsked
    /\ ctx.pc = "SaveState"

-----------------------------------------------------------------------------
(* has_changes through Extract and Refine *)

\* C19: when Refine asked the Reasoner, the has_changes it returns is Extract's
\* has_changes or-ed with "the revised document differs from the one Refine
\* was given"; has_changes true after Extract stays true after Refine, and it
\* is false after Refine only if Extract's document equals the loaded one and
\* Refine's document equals Extract's.
C19_HasChangesAccumulation ==
    RefineRan =>
        /\ RefineAsked =>
              ctx.refine_has_changes =
                  (ctx.extract_has_changes
                   \/ ~SameProblemSpace(ctx.answers[Len(ctx.answers)],
                                        ctx.extract_problem_space))
        /\ ctx.extract_has_changes => ctx.refine_has_changes
        /\ ~ctx.refine_has_changes =>
              /\ SameProblemSpace(ctx.extract_problem_space, ctx.load_problem_space)
              /\ SameProblemSpace(ctx.refine_problem_space, ctx.extract_problem_space)

\* Extract changed the document, the Reasoner's revision in Refine did not.
C19_Witness ==
    /\ RefineRan
    /\ RefineAsked
    /\ ctx.extract_has_changes
    /\ ctx.refine_problem_space = ctx.extract_problem_space
    /\ ctx.refine_has_changes

-----------------------------------------------------------------------------
(* What Compare returns *)

CompareRan ==
    /\ ctx.kind = "solution"
    /\ "CompareSolutions" \in Range(ctx.steps)
    /\ ctx.error = NoneStr

C20_CompareOutput ==
    (CompareRan /\ (existing_candidates(ctx.load_solution_space) # <<>>
                    \/ ctx.candidate # None)) =>
        LET prior == existing_candidates(ctx.load_solution_space)
            out == ctx.compare_solution_space
            answer == ctx.answers[Len(ctx.answers)]
        IN  /\ out # None
            /\ Len(out.candidates) = Len(prior) + 1
            /\ \A i \in 1..Len(prior) : out.candidates[i] = prior[i]
            /\ out.candidates[Len(out.candidates)] = ctx.candidate
            /\ out.comparison.analysis = answer.analysis
            /\ out.comparison.recommendation = answer.recommendation
            /\ out.simplification_feedback = answer.simplification_feedback

C20_CompareStep ==
    ctx.pc = "CompareSolutions" =>
        /\ ctx'.load_solution_space = ctx.load_solution_space
        /\ ctx'.candidate = ctx.candidate

\* C20: the SolutionSpace Compare returns has the prior candidates, unchanged
\* and in their order, followed by the new candidate as last element, and the
\* Reasoner's analysis, recommendation and simplification_feedback; the
\* SolutionSpace and the candidate given to Compare are the same after the step.
C20_CompareEmitsSolutionSpace == []C20_CompareOutput /\ [][C20_CompareStep]_vars

\* Compare ran on two prior candidates (ids 2 and 7) and a new one.
C20_Witness ==
    /\ CompareRan
    /\ ctx.load_solution_space = SSGap
    /\ Ids(ctx.compare_solution_space.candidates) = <<2, 7, 8>>
    /\ ctx.compare_solution_space.comparison = [analysis |-> "a", recommendation |-> "r"]

-----------------------------------------------------------------------------
(* Compare and Save on any prior candidates, with or without a new candidate *)

\* The candidate handed to compare_solutions: none, or a generated one.
CompareCandidates == {None, SolutionCandidate(8, "h_new")}

\* A solution run that has loaded its version and is about to compare.
InitCompare ==
    /\ \E ss \in SeedSolutionSpaces, ps \in ProblemSpaces, stored \in BOOLEAN :
          files = [w \in WorkspaceIds |->
                      IF w = "ws1" /\ stored
                      THEN <<VersionFile(SeedVersion, 0,
                                 _to_json(Workspace("ws1", SeedVersion, ps, ss)))>>
                      ELSE <<>>]
    /\ dirs = {"ws1"}
    /\ current_workspace_id = "ws1"
    /\ current_version_id \in {SeedVersion, PlaceholderVersion}
    /\ solution_processing = TRUE
    /\ confirm_solution_removal = NoneStr
    /\ pending_chat_input = NoneStr
    /\ \E candidate \in CompareCandidates :
          LET state == load_workspace_state(files, current_workspace_id, current_version_id)
          IN  ctx = [Invoke("solution", "add_solution", "Add Solution", FALSE) EXCEPT
                        !.pc = "CompareSolutions",
                        !.steps = <<"LoadWorkspace">>,
                        !.load_problem_space = state.problem_space,
                        !.load_solution_space = state.solution_space,
                        !.candidate = candidate]
    /\ writes = [w \in WorkspaceIds |-> 0]

NextCompare == CompareSolutions \/ ReasonerFails \/ SaveState \/ SolutionWorkflowReturns

SpecCompare == InitCompare /\ [][NextCompare]_vars

EmptyUnion == existing_candidates(ctx.load_solution_space) = <<>> /\ ctx.candidate = None

\* C21: with no prior candidates and no new candidate, Compare returns no
\* SolutionSpace and does not ask the Reasoner, and the Save that follows
\* (has_changes false, no SolutionSpace) calls save_workspace not at all and
\* returns no minted version id; the files stay as they were.
C21_CompareOnEmptyUnion ==
    (CompareRan /\ EmptyUnion) =>
        /\ ctx.compare_solution_space = None
        /\ ctx.calls = <<>>
        /\ ctx.written = <<>>
        /\ ctx.final_version_id \notin VersionIds
        /\ \A w \in WorkspaceIds : writes[w] = 0 /\ Len(files[w]) <= 1

\* The run ended on a stored SolutionSpace without candidates and no new one.
C21_Witness ==
    /\ SolutionRunDone
    /\ EmptyUnion
    /\ ctx.load_solution_space = SSEmpty
    /\ ctx.steps = <<"LoadWorkspace", "CompareSolutions", "SaveState">>
    /\ ctx.written = <<>>

-----------------------------------------------------------------------------
(* Each step once, in the graph's order *)

IsPrefix(s, t) == Len(s) <= Len(t) /\ \A i \in 1..Len(s) : s[i] = t[i]

\* C22: in one invocation no step runs twice: the steps executed so far are an
\* initial part of the graph's sequence, and all of it once the invocation is
\* done; the Reasoner is asked at most once per prompt, the refine prompt
\* included, and the consistency check is not asked again after a refinement.
C22_ExactlyOnce ==
    /\ ctx.kind = "problem" =>
          /\ IsPrefix(ctx.steps, <<"LoadWorkspace", "ExtractProblem", "CheckProblemSpace",
                                   "RefineProblemSpace", "SaveState">>)
          /\ IsPrefix(ctx.calls, <<"ExtractProblem", "CheckConsistency", "RefineProblem">>)
          /\ ctx.pc = "done" => Len(ctx.steps) = 5
    /\ ctx.kind = "solution" =>
          /\ IsPrefix(ctx.steps, <<"LoadWorkspace", "GenerateCandidate", "CompareSolutions",
                                   "SaveState">>)
          /\ IsPrefix(ctx.calls, <<"GenerateCandidate", "CompareSolutions">>)
          /\ ctx.pc = "done" => Len(ctx.steps) = 4
    /\ Len(ctx.answers) = Len(ctx.calls)

\* A problem run is done after a refinement by the Reasoner.
C22_Witness ==
    /\ ProblemRunDone
    /\ ctx.calls = <<"ExtractProblem", "CheckConsistency", "RefineProblem">>
    /\ Len(ctx.steps) = 5
    /\ ctx.written # <<>>

-----------------------------------------------------------------------------
(* What each step of the problem workflow reads *)

\* The steps that must have completed before `step` of the problem workflow starts.
CompletedBefore(step) ==
    CASE step = "ExtractProblem" -> {"LoadWorkspace"}
      [] step = "CheckProblemSpace" -> {"LoadWorkspace", "ExtractProblem"}
      [] step = "RefineProblemSpace" ->
             {"LoadWorkspace", "ExtractProblem", "CheckProblemSpace"}
      [] step = "SaveState" ->
             {"LoadWorkspace", "ExtractProblem", "CheckProblemSpace", "RefineProblemSpace"}
      [] OTHER -> {}

\* C23: in the problem workflow a step starts only after the steps whose output
\* it reads have completed (Load, Extract, Check, Refine or its pass-through,
\* Save); Extract is given Load's document, Check is given Extract's document,
\* Refine is given Extract's document and Check's observations and or-s its
\* change into Extract's has_changes, and Save decides and writes with Refine's
\* document and has_changes, not with an earlier step's.
C23_DependencyOrder ==
    ctx.kind = "problem" =>
        /\ CompletedBefore(ctx.pc) \subseteq Range(ctx.steps)
        /\ Len(ctx.given) >= 1 => ctx.given[1] = <<ctx.load_problem_space, ctx.chat_input>>
        /\ Len(ctx.given) >= 2 => ctx.given[2] = <<ctx.answers[1]>>
        /\ Len(ctx.given) >= 3 =>
              ctx.given[3] = <<ctx.answers[1], ctx.chat_input, ctx.answers[2]>>
        /\ RefineRan =>
              /\ ctx.observations = ctx.answers[2]
              /\ ctx.refine_has_changes =
                    (ctx.extract_has_changes
                     \/ ctx.refine_problem_space # ctx.extract_problem_space)
        /\ ProblemRunDone =>
              /\ (ctx.written = <<>>) <=>
                    (~ctx.refine_has_changes /\ ctx.load_solution_space = None)
              /\ \A i \in 1..Len(ctx.written) :
                    ctx.written[i].problem_space =
                        IF RefineAsked THEN ctx.answers[3] ELSE ctx.answers[1]

\* Extract left the document as loaded, Refine changed it, and Save wrote
\* Refine's document.
C23_Witness ==
    /\ ProblemRunDone
    /\ ~ctx.extract_has_changes
    /\ ctx.refine_problem_space # ctx.extract_problem_space
    /\ ctx.load_solution_space = None
    /\ Len(ctx.written) = 1
    /\ ctx.written[1].problem_space = ctx.refine_problem_space

-----------------------------------------------------------------------------
(* Termination of an invocation *)

\* A step of the running invocation: the step function returns or raises.
WorkflowStep ==
    \/ LoadWorkspace
    \/ ExtractProblem
    \/ CheckProblemSpace
    \/ RefinePassThrough
    \/ RefineProblemSpace
    \/ GenerateCandidate
    \/ CompareSolutions
    \/ ReasonerFails
    \/ SaveState

\* An invocation just started by the session, on any of the seed stores: a chat
\* input without displayed candidates, "Remove" or "Keep" with them, or "Add
\* Solution".
InitInvocation ==
    /\ \E ss \in SeedSolutionSpaces, stored \in BOOLEAN :
          files = [w \in WorkspaceIds |->
                      IF w = "ws1" /\ stored
                      THEN <<VersionFile(SeedVersion, 0,
                                 _to_json(Workspace("ws1", SeedVersion, PSGoal, ss)))>>
                      ELSE <<>>]
    /\ dirs = {"ws1"}
    /\ current_workspace_id = "ws1"
    /\ current_version_id =
          IF files["ws1"] # <<>> THEN SeedVersion ELSE PlaceholderVersion
    /\ \E caller \in {"chat", "remove", "keep", "add_solution"}, prompt \in Prompts :
          /\ caller \in {"remove", "keep"} => has_solutions(current_ws_data.solution_space)
          /\ caller = "chat" => ~has_solutions(current_ws_data.solution_space)
          /\ caller = "add_solution" =>
                add_solution_offered(current_candidates(current_ws_data.solution_space))
          /\ solution_processing = (caller = "add_solution")
          /\ confirm_solution_removal =
                IF caller \in {"remove", "keep"} THEN "pending" ELSE NoneStr
          /\ pending_chat_input = IF caller \in {"remove", "keep"} THEN prompt ELSE NoneStr
          /\ ctx = IF caller = "add_solution"
                   THEN Invoke("solution", caller, "Add Solution", FALSE)
                   ELSE Invoke("problem", caller, prompt, caller # "keep")
    /\ writes = [w \in WorkspaceIds |-> 0]

NextInvocation == WorkflowStep \/ ProblemWorkflowReturns \/ SolutionWorkflowReturns

\* The invocation run on: each Reasoner call eventually returns or fails, and
\* invoke() hands control back to the script.
SpecTermination ==
    /\ InitInvocation
    /\ [][NextInvocation]_vars
    /\ WF_vars(WorkflowStep)
    /\ WF_vars(ProblemWorkflowReturns)
    /\ WF_vars(SolutionWorkflowReturns)

Terminated ==
    \/ /\ ctx.pc = "done"
       /\ "SaveState" \in Range(ctx.steps)
       /\ ctx.final_version_id # NoneStr
    \/ /\ ctx.pc = "failed"
       /\ ctx.written = <<>>
       /\ "SaveState" \notin Range(ctx.steps)

\* C24: every started invocation eventually ends, either done after Save with
\* a value returned as final_version_id, or failed without a save; until then
\* every executed step is a new one (no return from Refine to Check).
C24_Termination ==
    /\ (ctx.pc \notin {"idle", "done", "failed"}) ~> Terminated
    /\ [](ctx.pc \in {"done", "failed"} => Terminated)
    /\ [][ctx'.steps # ctx.steps /\ ctx'.pc # "idle" =>
            /\ Len(ctx'.steps) = Len(ctx.steps) + 1
            /\ ctx'.steps[Len(ctx'.steps)] \notin Range(ctx.steps)]_vars

\* A run failed in Refine, after Check, without saving.
C24_Witness ==
    /\ ctx.pc = "failed"
    /\ ctx.steps = <<"LoadWorkspace", "ExtractProblem", "CheckProblemSpace",
                     "RefineProblemSpace">>
    /\ ctx.written = <<>>

-----------------------------------------------------------------------------
(* A save seen by a second session *)

\* The text of a file between open(path, "w") and the end of the write: empty,
\* or a proper prefix of the JSON text.  It does not parse.
TruncatedText == [truncated |-> TRUE]

\* save_workspace, line 76: open(path, "w") creates the file, or empties it.
open_for_write(fs, workspace, mtime, p) ==
    [fs EXCEPT ![workspace.id] =
        InsertAt(OtherFiles(fs, workspace.id, workspace.version), p,
                 VersionFile(workspace.version, mtime, TruncatedText))]

\* save_workspace, line 77 and the end of the with block: the text is written.
write_and_close(fs, workspace) ==
    [fs EXCEPT ![workspace.id] =
        [i \in 1..Len(@) |->
            IF @[i].stem = workspace.version
            THEN [@[i] EXCEPT !.content = _to_json(workspace)]
            ELSE @[i]]]

\* The first session has started an invocation on workspace ws1; the session
\* variables are those of a second session, which has clicked "New" and is on
\* ws2.
InitReaders ==
    /\ \E ss \in SeedSolutionSpaces, stored \in BOOLEAN :
          files = [w \in WorkspaceIds |->
                      IF w = "ws1" /\ stored
                      THEN <<VersionFile(SeedVersion, 0,
                                 _to_json(Workspace("ws1", SeedVersion, PSGoal, ss)))>>
                      ELSE <<>>]
    /\ dirs = {"ws1", "ws2"}
    /\ current_workspace_id = "ws2"
    /\ current_version_id = PlaceholderVersion
    /\ solution_processing = FALSE
    /\ confirm_solution_removal = NoneStr
    /\ pending_chat_input = NoneStr
    /\ \E caller \in {"chat", "keep", "add_solution"}, prompt \in Prompts :
          LET version == IF files["ws1"] # <<>> THEN SeedVersion ELSE PlaceholderVersion
              shown == load_workspace_state(files, "ws1", version).solution_space
              started == IF caller = "add_solution"
                         THEN Invoke("solution", caller, "Add Solution", FALSE)
                         ELSE Invoke("problem", caller, prompt, caller # "keep")
          IN  /\ caller = "keep" => has_solutions(shown)
              /\ caller = "chat" => ~has_solutions(shown)
              /\ ctx = [started EXCEPT !.workspace_id = "ws1", !.version_id = version]
    /\ writes = [w \in WorkspaceIds |-> 0]

\* save_state up to the open() of save_workspace.
SaveStateOpens ==
    /\ ctx.pc = "SaveState"
    /\ LET in == SaveInputs(ctx)
           ws_id == ctx.workspace_id
       IN  /\ ~save_missing_inputs(in.problem_space, ws_id)
           /\ ~save_nothing_to_do(in.has_changes, in.solution_space)
           /\ \E new_version \in VersionIds, mtime \in WriteTimes(files) :
                 LET ws == Workspace(ws_id, new_version, in.problem_space,
                               save_solution_space(in.solution_space,
                                                   in.remove_solutions))
                 IN  /\ \E p \in SortedPositions(
                                   OtherFiles(files, ws_id, new_version), mtime) :
                            files' = open_for_write(files, ws, mtime, p)
                     /\ dirs' = _get_workspace_dir(dirs, ws_id)
                     /\ writes' = [writes EXCEPT ![ws_id] = @ + 1]
                     /\ ctx' = [ctx EXCEPT !.pc = "save_workspace.write",
                                           !.final_version_id = new_version,
                                           !.written = Append(@, ws)]
    /\ SessionUnchanged

\* The rest of save_workspace and of save_state.
SaveStateWrites ==
    /\ ctx.pc = "save_workspace.write"
    /\ files' = write_and_close(files, ctx.written[Len(ctx.written)])
    /\ ctx' = Ran("SaveState")
    /\ UNCHANGED <<dirs, writes>>
    /\ SessionUnchanged

\* save_state returning early, without a write.
SaveStateSkips ==
    /\ ctx.pc = "SaveState"
    /\ save_nothing_to_do(SaveInputs(ctx).has_changes, SaveInputs(ctx).solution_space)
    /\ ctx' = [Ran("SaveState") EXCEPT
                  !.final_version_id =
                      save_unchanged_version_id(ctx.workspace_id, ctx.version_id)]
    /\ UNCHANGED <<files, dirs, writes>>
    /\ SessionUnchanged

\* Lines 235-240 in the second session: it selects the other workspace and
\* adopts the last element of list_versions.
ReaderSelectsWorkspace ==
    /\ \E selected_ws \in list_workspaces :
          /\ selected_ws # current_workspace_id
          /\ current_workspace_id' = selected_ws
          /\ LET versions == list_versions(selected_ws)
             IN  current_version_id' =
                     IF versions # <<>> THEN versions[Len(versions)]
                     ELSE PlaceholderVersion
    /\ UNCHANGED <<files, dirs, writes, solution_processing, confirm_solution_removal,
                   pending_chat_input, ctx>>

NextReaders ==
    \/ LoadWorkspace
    \/ ExtractProblem
    \/ CheckProblemSpace
    \/ RefinePassThrough
    \/ RefineProblemSpace
    \/ GenerateCandidate
    \/ CompareSolutions
    \/ ReasonerFails
    \/ SaveStateOpens
    \/ SaveStateWrites
    \/ SaveStateSkips
    \/ ReaderSelectsWorkspace

SpecReaders == InitReaders /\ [][NextReaders]_vars

\* The text of the version file the second session's script run loads (line 225).
ReaderLoadedText ==
    LET fs == files[current_workspace_id]
        i == CHOOSE j \in 1..Len(fs) : fs[j].stem = current_version_id
    IN  fs[i].content

\* C25: a session that lists the versions of a workspace and loads one of them
\* while another session saves there reads a complete document: the text of
\* the version it loads is never empty or truncated, and it parses to a
\* Workspace that was handed to save_workspace.
C25_NoHalfWrittenRead ==
    VersionExists(files, current_workspace_id, current_version_id) =>
        /\ ReaderLoadedText # TruncatedText
        /\ _to_json(_from_json(current_workspace_id, current_version_id,
                               ReaderLoadedText)) = ReaderLoadedText

-----------------------------------------------------------------------------
(* The version the session holds *)

\* C26: between invocations the session's current_version_id is the id of a version stored under
\* the current workspace or the placeholder the session started the workspace
\* with; it is never the workspace id, and never a value for which Load falls
\* back to the default empty ProblemSpace although the workspace has versions.
C26_SessionVersionValid ==
    ctx.pc = "idle" =>
        /\ \/ VersionExists(files, current_workspace_id, current_version_id)
           \/ current_version_id = PlaceholderVersion
        /\ current_version_id # current_workspace_id
        /\ list_versions(current_workspace_id) # <<>> =>
              VersionExists(files, current_workspace_id, current_version_id)

-----------------------------------------------------------------------------
(* Candidate ids of the versions the workflows write *)

\* C27: whatever duplicate ids the stored versions hold, every Workspace a
\* workflow hands to save_workspace has a SolutionSpace whose candidate ids are
\* pairwise distinct and at least 1 (or no SolutionSpace).
C27_WrittenIdsUnique ==
    \A i \in 1..Len(ctx.written) :
        LET ss == ctx.written[i].solution_space
        IN  ss # None =>
               /\ \A a, b \in 1..Len(ss.candidates) :
                     a # b => ss.candidates[a].id # ss.candidates[b].id
               /\ \A a \in 1..Len(ss.candidates) : ss.candidates[a].id >= 1
               /\ VersionExists(files, ctx.written[i].id, ctx.written[i].version)
               /\ load_workspace(files, ctx.written[i].id,
                                 ctx.written[i].version).solution_space = ss

\* A solution run on the stored candidates [3, 3, 5] wrote [3, 5, 6]; so did a
\* problem run that kept the solutions of such a version.
C27_Witness ==
    /\ ctx.version_id = SeedVersion
    /\ Len(ctx.written) = 1
    /\ ctx.written[1].solution_space # None
    /\ Ids(ctx.written[1].solution_space.candidates) \in {<<3, 5, 6>>, <<3, 5>>}
    /\ writes[ctx.workspace_id] = 1

-----------------------------------------------------------------------------
(* What a solution-workflow invocation carries over from the version it loaded *)

\* The Save step of a solution-workflow invocation writes a version.
SolutionSaveWrites ==
    /\ ctx.kind = "solution"
    /\ ctx.pc = "SaveState"
    /\ Len(ctx'.written) = Len(ctx.written) + 1

C28_CarriedOverStep ==
    SolutionSaveWrites =>
        LET loaded  == load_workspace_state(files, ctx.workspace_id, ctx.version_id)
            old     == existing_candidates(loaded.solution_space)
            written == ctx'.written[Len(ctx'.written)]
            stored  == load_workspace(files', written.id, written.version)
        IN  /\ ctx.load_problem_space = loaded.problem_space
            /\ ctx.load_solution_space = loaded.solution_space
            /\ written.problem_space = loaded.problem_space
            /\ stored.problem_space = loaded.problem_space
            /\ stored.solution_space # None
            /\ Len(stored.solution_space.candidates) >= Len(old)
            /\ \A i \in 1..Len(old) :
                  /\ stored.solution_space.candidates[i].id = old[i].id
                  /\ stored.solution_space.candidates[i].hypothesis = old[i].hypothesis
                  /\ stored.solution_space.candidates[i].model = old[i].model
                  /\ stored.solution_space.candidates[i].reasoning = old[i].reasoning

\* C28: the version a solution-workflow invocation writes has the problem_space
\* of the version it loaded, and every candidate of the loaded SolutionSpace
\* (the Load step's output) is in it, at the same position, with the same id,
\* hypothesis, model and reasoning.
C28_SolutionRunKeepsProblemAndCandidates == [][C28_CarriedOverStep]_vars

\* A solution run that loaded a stored problem statement and two candidates has
\* written its version.
C28_Witness ==
    /\ SolutionRunDone
    /\ ctx.load_problem_space = PSGoal
    /\ ctx.load_solution_space # None
    /\ Len(ctx.load_solution_space.candidates) = 2
    /\ Len(ctx.written) = 1
    /\ ctx.written[1].problem_space = PSGoal
    /\ Len(ctx.written[1].solution_space.candidates) = 3

-----------------------------------------------------------------------------
(* The confirmation a chat input needs when solutions are displayed *)

\* The displayed SolutionSpace has at least one candidate.
CandidatesDisplayed == Len(current_candidates(current_ws_data.solution_space)) > 0

\* This step starts a problem-workflow invocation.
ProblemInvocationStarts == ctx.pc = "idle" /\ ctx'.pc # "idle" /\ ctx'.kind = "problem"

C29_PendingState ==
    /\ confirm_solution_removal \in {NoneStr, "pending"}
    /\ confirm_solution_removal = NoneStr <=> pending_chat_input = NoneStr
    /\ (ctx.kind = "problem" /\ ctx.caller \in {"remove", "keep"}) =>
          /\ confirm_solution_removal = "pending"
          /\ ctx.chat_input = pending_chat_input
    /\ (ctx.kind = "problem" /\ ctx.caller = "chat") =>
          /\ confirm_solution_removal = NoneStr
          /\ ctx.remove_solutions

C29_GateStep ==
    \* A chat input: pending with the input stored when candidates are displayed,
    \* the workflow with remove_solutions = true when none are.
    /\ (confirm_solution_removal = NoneStr /\ confirm_solution_removal' = "pending") =>
          /\ CandidatesDisplayed
          /\ pending_chat_input' \in Prompts
          /\ UNCHANGED <<ctx, files, writes, current_version_id>>
    /\ (ProblemInvocationStarts /\ confirm_solution_removal = NoneStr) =>
          /\ ~CandidatesDisplayed
          /\ ctx'.remove_solutions
          /\ ctx'.caller = "chat"
          /\ UNCHANGED <<confirm_solution_removal, pending_chat_input>>
    \* Remove and Keep: the workflow runs on the stored input.
    /\ (ProblemInvocationStarts /\ confirm_solution_removal = "pending") =>
          /\ ctx'.caller \in {"remove", "keep"}
          /\ ctx'.remove_solutions = (ctx'.caller = "remove")
          /\ ctx'.chat_input = pending_chat_input
          /\ UNCHANGED <<confirm_solution_removal, pending_chat_input>>
    \* Cancel: back to None, no workflow and no write.
    /\ (Idle /\ confirm_solution_removal = "pending"
             /\ confirm_solution_removal' = NoneStr) =>
          /\ pending_chat_input' = NoneStr
          /\ UNCHANGED <<ctx, files, writes, current_version_id>>
    \* The run Remove or Keep started is over, whatever its outcome.
    /\ (ctx.kind = "problem" /\ ctx.caller \in {"remove", "keep"} /\ ctx'.pc = "idle") =>
          /\ ctx.pc \in {"done", "failed"}
          /\ confirm_solution_removal' = NoneStr
          /\ pending_chat_input' = NoneStr

\* C29: with candidates displayed a chat input only moves the session to
\* "pending" with the input stored; the problem workflow then runs only from
\* Remove (remove_solutions true) or Keep (false) on exactly that input; Cancel
\* runs nothing and writes nothing; after each of the three the session is back
\* to None with no pending input; with no candidates the workflow runs at once
\* with remove_solutions true.
C29_ConfirmationGate == []C29_PendingState /\ [][C29_GateStep]_vars

\* "Keep Solutions & Update" ran the stored input to its end and wrote a version
\* that still has the candidates.
C29_Witness ==
    /\ ProblemRunDone
    /\ ctx.caller = "keep"
    /\ ~ctx.remove_solutions
    /\ confirm_solution_removal = "pending"
    /\ ctx.chat_input = pending_chat_input
    /\ Len(ctx.written) = 1
    /\ ctx.written[1].solution_space # None

-----------------------------------------------------------------------------
(* The solution_processing flag *)

\* A solution-workflow invocation is in flight (started, not yet returned to the
\* script).
SolutionInvocationInFlight == ctx.kind = "solution" /\ ctx.pc # "idle"

C30_FlagStep ==
    \* set only by the click, on an enabled button, which starts one invocation
    /\ (~solution_processing /\ solution_processing') =>
          /\ Idle
          /\ add_solution_offered(current_candidates(current_ws_data.solution_space))
          /\ ctx'.kind = "solution"
          /\ ctx'.pc = "LoadWorkspace"
          /\ ctx'.caller = "add_solution"
    \* an invocation starts only with the flag going up
    /\ (ctx.pc = "idle" /\ ctx'.pc # "idle" /\ ctx'.kind = "solution") =>
          ~solution_processing /\ solution_processing'
    \* whatever the outcome, the flag is down when the invocation is over
    /\ (SolutionInvocationInFlight /\ ctx'.pc = "idle") =>
          /\ ctx.pc \in {"done", "failed"}
          /\ ~solution_processing'
    \* and it goes down at no other step
    /\ (solution_processing /\ ~solution_processing') =>
          SolutionInvocationInFlight /\ ctx'.pc = "idle"

\* C30: solution_processing is true exactly while the solution invocation that
\* an Add Solution click started is in flight: it is set only by the click, one
\* invocation runs per click, and when the invocation is over (version id
\* returned, nothing returned, or an exception) the flag is false again, so the
\* button is enabled whenever no invocation runs.
C30_ProcessingFlagReleased ==
    /\ [](solution_processing <=> SolutionInvocationInFlight)
    /\ [][C30_FlagStep]_vars

\* The session is idle with the flag down and the button offered again, showing
\* a candidate that a solution run added.
C30_Witness ==
    /\ Idle
    /\ ~solution_processing
    /\ add_solution_offered(current_candidates(current_ws_data.solution_space))
    /\ \E i \in 1..Len(current_candidates(current_ws_data.solution_space)) :
          current_candidates(current_ws_data.solution_space)[i].hypothesis = "h_new"

-----------------------------------------------------------------------------
(* save_state on missing inputs *)

\* The workspace ids and problem_space documents save_state is called with:
\* the falsy ones and proper ones.
SaveWorkspaceIds == {"", "ws1"}

SaveDocuments == {None, EmptyDict, PSDefault, PSGoal}

\* An invocation whose Save step is about to run, on any of the seed stores.
InitSaveInputs ==
    /\ \E ss \in SeedSolutionSpaces, stored \in BOOLEAN :
          files = [w \in WorkspaceIds |->
                      IF w = "ws1" /\ stored
                      THEN <<VersionFile(SeedVersion, 0,
                                 _to_json(Workspace("ws1", SeedVersion, PSGoal, ss)))>>
                      ELSE <<>>]
    /\ dirs = {"ws1"}
    /\ current_workspace_id = "ws1"
    /\ current_version_id =
          IF files["ws1"] # <<>> THEN SeedVersion ELSE PlaceholderVersion
    /\ writes = [w \in WorkspaceIds |-> 0]
    /\ \E caller \in {"chat", "keep", "add_solution"}, prompt \in Prompts,
          workspace_id \in SaveWorkspaceIds, problem_space \in SaveDocuments,
          has_changes \in BOOLEAN, solution_space \in {None, SSGap} :
          /\ solution_processing = (caller = "add_solution")
          /\ confirm_solution_removal = IF caller = "keep" THEN "pending" ELSE NoneStr
          /\ pending_chat_input = IF caller = "keep" THEN prompt ELSE NoneStr
          /\ ctx =
               IF caller = "add_solution"
               THEN [Invoke("solution", caller, "Add Solution", FALSE) EXCEPT
                        !.pc = "SaveState",
                        !.workspace_id = workspace_id,
                        !.steps = SubSeq(SolutionSteps, 1, 3),
                        !.load_problem_space = problem_space,
                        !.compare_solution_space = solution_space]
               ELSE [Invoke("problem", caller, prompt, caller = "chat") EXCEPT
                        !.pc = "SaveState",
                        !.workspace_id = workspace_id,
                        !.steps = SubSeq(ProblemSteps, 1, 4),
                        !.refine_problem_space = problem_space,
                        !.refine_has_changes = has_changes,
                        !.load_solution_space = solution_space]

NextSaveInputs == SaveState \/ ProblemWorkflowReturns \/ SolutionWorkflowReturns

SpecSaveInputs == InitSaveInputs /\ [][NextSaveInputs]_vars

\* Save is about to run and its workspace id or problem_space is missing.
SaveInputsMissing ==
    /\ ctx.pc = "SaveState"
    /\ \/ ctx.workspace_id = ""
       \/ SaveInputs(ctx).problem_space = None
       \/ DOMAIN SaveInputs(ctx).problem_space = {}

C31_MissingInputsStep ==
    /\ (SaveInputsMissing /\ ctx' # ctx) =>
          /\ ctx'.pc = "done"
          /\ ctx'.steps = Append(ctx.steps, "SaveState")
          /\ ctx'.final_version_id = NoneStr
          /\ ctx'.written = <<>>
          /\ UNCHANGED <<files, dirs, writes, current_version_id>>
    /\ (ctx.pc = "done" /\ ctx.final_version_id = NoneStr /\ ctx'.pc = "idle") =>
          UNCHANGED <<files, dirs, writes, current_workspace_id, current_version_id>>

\* C31: when save_state is called with an empty workspace id or with a
\* problem_space that is None or {}, it returns no final_version_id, writes no
\* file and mints no version id, whatever has_changes, solution_space and
\* remove_solutions are; the session then keeps its current_version_id.
C31_SaveWithMissingInputs ==
    /\ [](ctx.pc = "done" /\ ctx.final_version_id = NoneStr =>
             ctx.written = <<>> /\ \A w \in WorkspaceIds : writes[w] = 0)
    /\ [][C31_MissingInputsStep]_vars

\* save_state returned on an empty problem_space although has_changes was set
\* and a solution space was passed.
C31_Witness ==
    /\ ProblemRunDone
    /\ ctx.refine_problem_space = EmptyDict
    /\ ctx.refine_has_changes
    /\ ctx.load_solution_space = SSGap
    /\ ctx.workspace_id = "ws1"
    /\ ctx.final_version_id = NoneStr
    /\ ctx.written = <<>>

====
